---- MODULE Spec2Model ----
(***************************************************************************)
(* Shader program lifecycle of gl_render/src/shader.rs: Shader and Program *)
(* wrappers over native shader / program objects of one graphics context.  *)
(*                                                                         *)
(* The graphics context is modelled by the calls the code issues on it:    *)
(* which handles were created, how often Delete* was called on each, what  *)
(* is attached to what, the compile / link status the driver reported and  *)
(* the active program.  The driver's verdicts (compile status, link status *)
(* and info logs) and the resource loader's results are inputs.            *)
(*                                                                         *)
(* Text (resource names, suffixes, info logs) is a sequence of characters. *)
(***************************************************************************)
EXTENDS Integers, Sequences, FiniteSets, TLC

VARIABLES
    gl,        \* the native context: see NewContext
    shaders,   \* handles of the Shader values the caller owns
    programs,  \* handles of the Program values the caller owns
    dropped,   \* handles of every Shader / Program value whose drop has run
    last       \* the last operation called: its name, arguments and return value

vars == <<gl, shaders, programs, dropped, last>>

----------------------------------------------------------------------------
(* Bounds of the model *)

\* handles the context hands out before the model stops creating objects
MaxHandles == 3
\* longest slice of shaders handed to Program::from_shaders by the caller
MaxUnits == 2
\* longest info log the driver produces
MaxLogLen == 1

----------------------------------------------------------------------------
(* Text *)

NUL == "\\0"

VERT == <<".", "v", "e", "r", "t">>
FRAG == <<".", "f", "r", "a", "g">>

VERTEX_SHADER == "GL_VERTEX_SHADER"
FRAGMENT_SHADER == "GL_FRAGMENT_SHADER"

\* a suffix test that accepts the suffix anywhere in the name
ends_with_Contains(name, ext) ==
    \E i \in 1..Len(name) :
        /\ i + Len(ext) - 1 <= Len(name)
        /\ SubSeq(name, i, i + Len(ext) - 1) = ext

\* str::ends_with
ends_with(name, ext) ==
    /\ Len(name) >= Len(ext)
    /\ SubSeq(name, Len(name) - Len(ext) + 1, Len(name)) = ext

\* a format with its two arguments in the other order
format_SuffixFirst(name, file_extension) == file_extension \o name

\* format!("{}{}", name, file_extension)
format(name, file_extension) == name \o file_extension

\* the table of suffixes with the fragment stage first
ProgramPOSSIBLE_EXT_FragFirst == <<FRAG, VERT>>

\* Program::from_res, const POSSIBLE_EXT
ProgramPOSSIBLE_EXT == <<VERT, FRAG>>

\* Shader::from_res, const POSSIBLE_EXT
ShaderPOSSIBLE_EXT == << <<VERT, VERTEX_SHADER>>, <<FRAG, FRAGMENT_SHADER>> >>

\* Result<T, E>
Ok(v) == [ok |-> TRUE, val |-> v]
Err(e) == [ok |-> FALSE, err |-> e]

\* enum Error
UnknownShaderType(name, message) ==
    [tag |-> "UnknownShaderType", name |-> name, message |-> message]
ResourceLoadError(name, inner) ==
    [tag |-> "ResourceLoadError", name |-> name, inner |-> inner]
CompileError(name, message) ==
    [tag |-> "CompileError", name |-> name, message |-> message]
LinkError(name, message) ==
    [tag |-> "LinkError", name |-> name, message |-> message]

----------------------------------------------------------------------------
(* The native context *)

\* the context after gl::Gl::load_with: no object, no active program
NewContext ==
    [ next     |-> 1,          \* the next handle the context hands out
      kind     |-> << >>,      \* shader handle -> stage kind, every shader created
      source   |-> << >>,      \* shader handle -> source submitted
      status   |-> << >>,      \* shader handle -> COMPILE_STATUS
      infoLog  |-> << >>,      \* handle -> info log of its last compile / link
      progs    |-> {},         \* program handles created
      linked   |-> << >>,      \* program handle -> LINK_STATUS
      built    |-> << >>,      \* program handle -> the shaders attached at its link
      attached |-> {},         \* <<program, shader>> pairs
      deletes  |-> << >>,      \* handle -> number of Delete* calls on it
      active   |-> 0,          \* the program of the last UseProgram (0: none)
      calls    |-> << >> ]     \* the native and loader calls of the operation

Call(g, c) == [g EXCEPT !.calls = Append(@, c)]

\* a new operation starts: its calls are recorded from here
Enter(g) == [g EXCEPT !.calls = << >>]

CreateShader(g, kind) ==
    [Call(g, <<"CreateShader", g.next>>) EXCEPT
        !.next = @ + 1,
        !.kind = @ @@ (g.next :> kind),
        !.source = @ @@ (g.next :> << >>),
        !.status = @ @@ (g.next :> 0),
        !.infoLog = @ @@ (g.next :> << >>),
        !.deletes = @ @@ (g.next :> 0)]

ShaderSource(g, shader, source) ==
    [Call(g, <<"ShaderSource", shader>>) EXCEPT !.source[shader] = source]

\* verdict: what the driver's compiler makes of the source, [status, log]
CompileShader(g, shader, verdict) ==
    [Call(g, <<"CompileShader", shader>>) EXCEPT
        !.status[shader] = verdict.status,
        !.infoLog[shader] = verdict.log]

DeleteShader(g, shader) ==
    [Call(g, <<"DeleteShader", shader>>) EXCEPT !.deletes[shader] = @ + 1]

CreateProgram(g) ==
    [Call(g, <<"CreateProgram", g.next>>) EXCEPT
        !.next = @ + 1,
        !.progs = @ \cup {g.next},
        !.linked = @ @@ (g.next :> 0),
        !.built = @ @@ (g.next :> {}),
        !.infoLog = @ @@ (g.next :> << >>),
        !.deletes = @ @@ (g.next :> 0)]

AttachShader(g, program, shader) ==
    [Call(g, <<"AttachShader", program, shader>>) EXCEPT
        !.attached = @ \cup {<<program, shader>>}]

DetachShader(g, program, shader) ==
    [Call(g, <<"DetachShader", program, shader>>) EXCEPT
        !.attached = @ \ {<<program, shader>>}]

\* verdict: what the driver's linker makes of the attached stages
LinkProgram(g, program, verdict) ==
    [Call(g, <<"LinkProgram", program>>) EXCEPT
        !.linked[program] = verdict.status,
        !.built[program] = {a[2] : a \in {b \in g.attached : b[1] = program}},
        !.infoLog[program] = verdict.log]

\* deleting a program object detaches what is attached to it
DeleteProgram(g, program) ==
    [Call(g, <<"DeleteProgram", program>>) EXCEPT
        !.deletes[program] = @ + 1,
        !.attached = {a \in @ : a[1] # program}]

\* UseProgram that leaves an already active program in place
UseProgram_FirstWins(g, program) ==
    [Call(g, <<"UseProgram", program>>) EXCEPT
        !.active = IF @ = 0 THEN program ELSE @]

UseProgram(g, program) ==
    [Call(g, <<"UseProgram", program>>) EXCEPT !.active = program]

\* GetShaderiv / GetProgramiv: the query is recorded, the context is unchanged
Getiv(g, h, pname) == Call(g, <<"Getiv", h, pname>>)

\* the value of INFO_LOG_LENGTH: the log's length with its terminator, 0 when
\* there is no log
INFO_LOG_LENGTH(g, h) ==
    IF g.infoLog[h] = << >> THEN 0 ELSE Len(g.infoLog[h]) + 1

Min(a, b) == IF a <= b THEN a ELSE b

\* GetShaderInfoLog / GetProgramInfoLog: at most bufSize - 1 characters of the
\* log and a terminator are written to the start of the buffer
InfoLogInto(g, h, bufSize, buf) ==
    IF bufSize <= 0 THEN buf
    ELSE LET n == Min(bufSize - 1, Len(g.infoLog[h]))
         IN [i \in 1..Len(buf) |->
                IF i <= n THEN g.infoLog[h][i]
                ELSE IF i = n + 1 THEN NUL
                ELSE buf[i]]

\* CString::from_vec_unchecked over len spaces: the bytes and the terminator
\* the CString appends
create_whitespace_cstring_with_len(len) == [i \in 1..len |-> " "] \o <<NUL>>

\* CString::to_string_lossy: every byte the CString holds before its own
\* terminator (its stored length, not the first NUL, ends it)
to_string_lossy(cstring) == SubSeq(cstring, 1, Len(cstring) - 1)

----------------------------------------------------------------------------
(* gl_render/src/shader.rs *)

\* The functions below take the state w they run in,
\*   [gl, shaders, programs, dropped],
\* and return [w |-> the state they leave, ret |-> their return value].
\* A Shader or Program value is its handle: the wrappers are move-only and
\* each is built around a handle the context has just handed out.

\* ReadInfoLog with the buffer size passed one short of the queried length
ReadInfoLog_Short(g, h) ==
    LET g1 == Getiv(g, h, "INFO_LOG_LENGTH")
        error_len == INFO_LOG_LENGTH(g1, h)
        error_msg == create_whitespace_cstring_with_len(error_len)
        g2 == Call(g1, <<"GetInfoLog", h>>)
    IN [gl |-> g2,
        message |-> to_string_lossy(InfoLogInto(g2, h, error_len - 1, error_msg))]

\* the info log of handle h as the code reads it: query the length, allocate
\* that many spaces, let the driver write into them, convert to text
ReadInfoLog(g, h) ==
    LET g1 == Getiv(g, h, "INFO_LOG_LENGTH")
        error_len == INFO_LOG_LENGTH(g1, h)
        error_msg == create_whitespace_cstring_with_len(error_len)
        g2 == Call(g1, <<"GetInfoLog", h>>)
    IN [gl |-> g2,
        message |-> to_string_lossy(InfoLogInto(g2, h, error_len, error_msg))]

\* shader_from_source without the test of the compile status
shader_from_source_Unchecked(g, source, kind, verdict) ==
    [gl |-> Getiv(CompileShader(ShaderSource(CreateShader(g, kind), g.next, source),
                                g.next, verdict),
                  g.next, "COMPILE_STATUS"),
     ret |-> Ok(g.next)]

\* fn shader_from_source
shader_from_source(g, source, kind, verdict) ==
    LET shader == g.next
        g1 == CreateShader(g, kind)
        g2 == ShaderSource(g1, shader, source)
        g3 == CompileShader(g2, shader, verdict)
        g4 == Getiv(g3, shader, "COMPILE_STATUS")
        success == g4.status[shader]
    IN IF success = 0
       THEN LET r == ReadInfoLog(g4, shader)
            IN [gl |-> r.gl,
                ret |-> Err(CompileError(<<"s", "h", "a", "d", "e", "r">>, r.message))]
       ELSE [gl |-> g4, ret |-> Ok(shader)]

\* Shader::from_source
Shader_from_source(w, source, kind, verdict) ==
    LET r == shader_from_source(w.gl, source, kind, verdict)
    IN IF r.ret.ok
       THEN [w |-> [w EXCEPT !.gl = r.gl, !.shaders = @ \cup {r.ret.val}],
             ret |-> Ok(r.ret.val)]
       ELSE [w |-> [w EXCEPT !.gl = r.gl], ret |-> r.ret]

\* a drop of Shader that deletes the handle twice
Shader_drop_Twice(w, id) ==
    [w EXCEPT !.gl = DeleteShader(DeleteShader(@, id), id),
              !.shaders = @ \ {id},
              !.dropped = @ \cup {id}]

\* impl Drop for Shader
Shader_drop(w, id) ==
    [w EXCEPT !.gl = DeleteShader(@, id),
              !.shaders = @ \ {id},
              !.dropped = @ \cup {id}]

\* impl Drop for Program
Program_drop(w, id) ==
    [w EXCEPT !.gl = DeleteProgram(@, id),
              !.programs = @ \ {id},
              !.dropped = @ \cup {id}]

\* FindKind falling back to the fragment stage for an unrecognized suffix
RECURSIVE FindKind_Default(_, _, _)
FindKind_Default(table, name, i) ==
    IF i > Len(table) THEN FRAGMENT_SHADER
    ELSE IF ends_with(name, table[i][1]) THEN table[i][2]
    ELSE FindKind_Default(table, name, i + 1)

\* the kind of the first entry of POSSIBLE_EXT whose suffix ends the name,
\* "none" when there is none (Iterator::find over the table)
RECURSIVE FindKind(_, _, _)
FindKind(table, name, i) ==
    IF i > Len(table) THEN "none"
    ELSE IF ends_with(name, table[i][1]) THEN table[i][2]
    ELSE FindKind(table, name, i + 1)

\* Resources::load_cstring: res maps a resource name to what the loader
\* returns for it, Ok(source) or Err(cause)
load_cstring(g, res, name) ==
    [gl |-> Call(g, <<"load_cstring", name, res[name]>>), ret |-> res[name]]

\* Shader::from_res; drv.compile[kind] is the driver's verdict on the source
Shader_from_res(w, res, name, drv) ==
    LET shader_kind == FindKind(ShaderPOSSIBLE_EXT, name, 1)
    IN IF shader_kind = "none"
       THEN [w |-> w,
             ret |-> Err(UnknownShaderType(name,
                         <<"failed to recognize shader extension">>))]
       ELSE LET l == load_cstring(w.gl, res, name)
                w1 == [w EXCEPT !.gl = l.gl]
            IN IF ~l.ret.ok
               THEN [w |-> w1, ret |-> Err(ResourceLoadError(name, l.ret.err))]
               ELSE Shader_from_source(w1, l.ret.val, shader_kind,
                                       drv.compile[shader_kind])

\* for shader in shaders { gl.AttachShader(program_id, shader.id()) }
RECURSIVE AttachAll(_, _, _, _)
AttachAll(g, program_id, units, i) ==
    IF i > Len(units) THEN g
    ELSE AttachAll(AttachShader(g, program_id, units[i]), program_id, units, i + 1)

\* a detach loop that detaches nothing
DetachAll_Skip(g, program_id, units, i) == g

\* for shader in shaders { gl.DetachShader(program_id, shader.id()) }
RECURSIVE DetachAll(_, _, _, _)
DetachAll(g, program_id, units, i) ==
    IF i > Len(units) THEN g
    ELSE DetachAll(DetachShader(g, program_id, units[i]), program_id, units, i + 1)

\* Program::from_shaders with the detach loop placed before the link
Program_from_shaders_DetachFirst(w, units, verdict) ==
    [w |-> [w EXCEPT
              !.gl = Getiv(LinkProgram(
                             DetachAll(AttachAll(CreateProgram(w.gl), w.gl.next, units, 1),
                                       w.gl.next, units, 1),
                             w.gl.next, verdict),
                           w.gl.next, "LINK_STATUS"),
              !.programs = IF verdict.status = 0 THEN @ ELSE @ \cup {w.gl.next}],
     ret |-> IF verdict.status = 0 THEN Err(verdict.log) ELSE Ok(w.gl.next)]

\* Program::from_shaders; units is the slice of Shader values
Program_from_shaders(w, units, verdict) ==
    LET program_id == w.gl.next
        g1 == CreateProgram(w.gl)
        g2 == AttachAll(g1, program_id, units, 1)
        g3 == LinkProgram(g2, program_id, verdict)
        g4 == Getiv(g3, program_id, "LINK_STATUS")
        success == g4.linked[program_id]
    IN IF success = 0
       THEN LET r == ReadInfoLog(g4, program_id)
            IN [w |-> [w EXCEPT !.gl = r.gl], ret |-> Err(r.message)]
       ELSE [w |-> [w EXCEPT !.gl = DetachAll(g4, program_id, units, 1),
                             !.programs = @ \cup {program_id}],
             ret |-> Ok(program_id)]

\* a vector of shaders that is forgotten instead of dropped
DropVec_Forget(w, units, i) == w

\* a Vec<Shader> goes out of scope: its elements are dropped first to last
RECURSIVE DropVec(_, _, _)
DropVec(w, units, i) ==
    IF i > Len(units) THEN w
    ELSE DropVec(Shader_drop(w, units[i]), units, i + 1)

\* POSSIBLE_EXT.iter().map(Shader::from_res).collect::<Result<Vec<_>, _>>():
\* the stages are built in order; the first error ends the iteration, drops
\* the shaders collected so far and is the result.  Collect builds stage i,
\* Collected takes the result r of building it.
RECURSIVE Collect(_, _, _, _, _, _)
RECURSIVE Collected(_, _, _, _, _, _)

\* a collect that goes on to the next stage after a stage failed and returns
\* the first error at the end
Collected_NoShortCircuit(r, res, name, drv, i, acc) ==
    IF r.ret.ok
    THEN Collect(r.w, res, name, drv, i + 1, Append(acc, r.ret.val))
    ELSE LET rest == Collect(r.w, res, name, drv, i + 1, acc)
         IN [w |-> IF rest.ret.ok THEN DropVec(rest.w, rest.ret.val, 1) ELSE rest.w,
             ret |-> r.ret]

Collected(r, res, name, drv, i, acc) ==
    IF r.ret.ok
    THEN Collect(r.w, res, name, drv, i + 1, Append(acc, r.ret.val))
    ELSE [w |-> DropVec(r.w, acc, 1), ret |-> r.ret]

Collect(w, res, name, drv, i, acc) ==
    IF i > Len(ProgramPOSSIBLE_EXT) THEN [w |-> w, ret |-> Ok(acc)]
    ELSE Collected(Shader_from_res(w, res, format(name, ProgramPOSSIBLE_EXT[i]), drv),
                   res, name, drv, i, acc)

\* the end of Program::from_res with the vector of shaders kept alive
Linked_KeepsShaders(p, units, name) ==
    [w |-> p.w,
     ret |-> IF p.ret.ok THEN p.ret ELSE Err(LinkError(name, p.ret.err))]

\* the end of Program::from_res: p is what Program::from_shaders returned for
\* the vector units; the error is mapped, then the vector goes out of scope
Linked(p, units, name) ==
    [w |-> DropVec(p.w, units, 1),
     ret |-> IF p.ret.ok THEN p.ret ELSE Err(LinkError(name, p.ret.err))]

\* Program::from_res after the collect: c is what the collect returned
AfterCollect(c, name, drv) ==
    IF ~c.ret.ok THEN c
    ELSE Linked(Program_from_shaders(c.w, c.ret.val, drv.link), c.ret.val, name)

\* Program::from_res
Program_from_res(w, res, name, drv) ==
    AfterCollect(Collect(w, res, name, drv, 1, << >>), name, drv)

\* Program::use_it
Program_use_it(w, id) == [w EXCEPT !.gl = UseProgram(@, id)]

----------------------------------------------------------------------------
(* Inputs *)

\* the text of info logs: "erer..."
LogChar(i) == IF i % 2 = 1 THEN "e" ELSE "r"
Logs == {[i \in 1..n |-> LogChar(i)] : n \in 0..MaxLogLen}

\* what the driver reports for a compile or a link: success (no log is
\* considered: the code never reads the log of a success), or failure with any
\* of the logs, the empty one included
Verdicts ==
    {[status |-> 1, log |-> << >>]} \cup {[status |-> 0, log |-> l] : l \in Logs}

Kinds == {VERTEX_SHADER, FRAGMENT_SHADER}

Drivers == [compile : [Kinds -> Verdicts], link : Verdicts]

Sources == {"void main() {}"}
LoadErrors == {"Io", "FileContainsNil"}
LoadOutcomes == {Ok(s) : s \in Sources} \cup {Err(e) : e \in LoadErrors}

\* logical names handed to Program::from_res
LogicalNames == {<<"t">>, <<"t">> \o FRAG, <<"t">> \o VERT}

\* resource names handed to Shader::from_res
ResourceNames ==
    {<<"t">> \o VERT, <<"t">> \o VERT \o FRAG, FRAG,
     <<"t", ".", "g", "l", "s", "l">>, <<"v", "e", "r", "t">>, << >>}

\* sequences of distinct live shaders, at most MaxUnits long
RECURSIVE Slices(_, _)
Slices(S, n) ==
    IF n = 0 THEN {<< >>}
    ELSE LET shorter == Slices(S, n - 1)
         IN shorter \cup
            {Append(u, x) : u \in {v \in shorter : Len(v) = n - 1},
                            x \in S}

Distinct(u) == \A i, j \in 1..Len(u) : i # j => u[i] # u[j]

----------------------------------------------------------------------------
(* The operations a caller performs *)

World == [gl |-> Enter(gl), shaders |-> shaders, programs |-> programs,
          dropped |-> dropped]

Commit(w) ==
    /\ gl' = w.gl
    /\ shaders' = w.shaders
    /\ programs' = w.programs
    /\ dropped' = w.dropped

Init ==
    /\ gl = NewContext
    /\ shaders = {}
    /\ programs = {}
    /\ dropped = {}
    /\ last = [op |-> "none", arg |-> << >>, ret |-> Ok(0)]

CallShaderFromSource ==
    /\ gl.next <= MaxHandles
    /\ \E source \in Sources, kind \in Kinds, verdict \in Verdicts :
         LET r == Shader_from_source(World, source, kind, verdict)
         IN /\ Commit(r.w)
            /\ last' = [op |-> "Shader::from_source", arg |-> kind, ret |-> r.ret]

CallShaderFromRes ==
    /\ gl.next <= MaxHandles
    /\ \E name \in ResourceNames, outcome \in LoadOutcomes, verdict \in Verdicts :
         LET res == [n \in {name} |-> outcome]
             drv == [compile |-> [k \in Kinds |-> verdict], link |-> verdict]
             r == Shader_from_res(World, res, name, drv)
         IN /\ Commit(r.w)
            /\ last' = [op |-> "Shader::from_res", arg |-> name, ret |-> r.ret]

CallProgramFromShaders ==
    /\ gl.next <= MaxHandles
    /\ \E units \in Slices(shaders, MaxUnits), verdict \in Verdicts :
         /\ Distinct(units)
         /\ LET r == Program_from_shaders(World, units, verdict)
            IN /\ Commit(r.w)
               /\ last' = [op |-> "Program::from_shaders", arg |-> units,
                           ret |-> r.ret]

CallProgramFromRes ==
    /\ gl.next + 2 <= MaxHandles
    /\ \E name \in LogicalNames, drv \in Drivers :
         \E res \in [{format(name, VERT), format(name, FRAG)} -> LoadOutcomes] :
            LET r == Program_from_res(World, res, name, drv)
            IN /\ Commit(r.w)
               /\ last' = [op |-> "Program::from_res", arg |-> name, ret |-> r.ret]

CallUseIt ==
    \E p \in programs :
        /\ Commit(Program_use_it(World, p))
        /\ last' = [op |-> "Program::use_it", arg |-> p, ret |-> Ok(0)]

DropShader ==
    \E s \in shaders :
        /\ Commit(Shader_drop(World, s))
        /\ last' = [op |-> "drop Shader", arg |-> s, ret |-> Ok(0)]

DropProgram ==
    \E p \in programs :
        /\ Commit(Program_drop(World, p))
        /\ last' = [op |-> "drop Program", arg |-> p, ret |-> Ok(0)]

Next ==
    \/ CallShaderFromSource
    \/ CallShaderFromRes
    \/ CallProgramFromShaders
    \/ CallProgramFromRes
    \/ CallUseIt
    \/ DropShader
    \/ DropProgram

Spec == Init /\ [][Next]_vars

----------------------------------------------------------------------------
(* Vocabulary of the properties *)

\* native objects on which no Delete* call was made
LiveShaderObjects == {h \in DOMAIN gl.kind : gl.deletes[h] = 0}
LiveProgramObjects == {p \in gl.progs : gl.deletes[p] = 0}

\* the calls of the last operation named op
CallsOf(op) == {i \in DOMAIN gl.calls : gl.calls[i][1] = op}

\* the handles the last operation created
CreatedShaders == {gl.calls[i][2] : i \in CallsOf("CreateShader")}
CreatedPrograms == {gl.calls[i][2] : i \in CallsOf("CreateProgram")}

Failed(op) == last.op = op /\ ~last.ret.ok
FailedWith(op, tag) == Failed(op) /\ last.ret.err.tag = tag

\* text carries the log: the log is its beginning, nothing of it cut
Carries(text, log) ==
    /\ Len(text) >= Len(log)
    /\ SubSeq(text, 1, Len(log)) = log

----------------------------------------------------------------------------
(* C1: when Shader::from_source fails to compile, the shader object it      *)
(* created is deleted before it returns: the live native shader objects     *)
(* after the failed call are those before it.                               *)
C1_FailedCompileLeavesNoShader ==
    [][Failed("Shader::from_source")' => LiveShaderObjects' = LiveShaderObjects]_vars

(* C2: when Program::from_shaders fails to link, the program object it      *)
(* created is deleted before it returns: the live native program objects    *)
(* after the failed call are those before it.                               *)
C2_FailedLinkLeavesNoProgram ==
    [][Failed("Program::from_shaders")' => LiveProgramObjects' = LiveProgramObjects]_vars

(* C3: when Program::from_res fails at a compile or at the link, every      *)
(* Shader it constructed (every shader it created that compiled) has been   *)
(* dropped and DeleteShader has been called on its handle when it returns.  *)
C3_FromResFailureDropsItsShaders ==
    (FailedWith("Program::from_res", "CompileError")
       \/ FailedWith("Program::from_res", "LinkError"))
    => \A h \in CreatedShaders :
         gl.status[h] = 1 =>
            /\ h \in dropped /\ h \notin shaders
            /\ \E i \in CallsOf("DeleteShader") : gl.calls[i][2] = h

\* the fragment stage failed to compile after the vertex stage compiled
C3_Witness ==
    /\ FailedWith("Program::from_res", "CompileError")
    /\ \E v, f \in CreatedShaders :
         /\ gl.kind[v] = VERTEX_SHADER /\ gl.status[v] = 1 /\ gl.deletes[v] = 1
         /\ gl.kind[f] = FRAGMENT_SHADER /\ gl.status[f] = 0

(* C4: DeleteShader / DeleteProgram is called exactly once on the handle of *)
(* every Shader / Program value, at its drop and not before, and on no      *)
(* handle twice, whatever the order of the drops.                           *)
C4_DeletedExactlyOnceAtDrop ==
    /\ \A h \in DOMAIN gl.deletes : gl.deletes[h] <= 1
    /\ \A h \in shaders \cup programs : gl.deletes[h] = 0
    /\ \A h \in dropped : gl.deletes[h] = 1
    /\ \A h \in DOMAIN gl.deletes : gl.deletes[h] >= 1 => h \in dropped

\* a shader is dropped after the program that was linked from it was dropped,
\* and another shader of that program was dropped before the program
C4_Witness ==
    /\ last.op = "drop Shader"
    /\ \E p \in dropped \cap gl.progs :
         /\ last.arg \in gl.built[p]
         /\ \E s \in gl.built[p] : s < p /\ s # last.arg /\ s \in dropped

(* C5: the context's active program is never a program on which             *)
(* DeleteProgram was called.                                                *)
C5_ActiveProgramNeverDeleted ==
    gl.active # 0 => gl.deletes[gl.active] = 0

(* C6: Shader::from_res with a name ending in neither ".vert" nor ".frag"   *)
(* returns UnknownShaderType carrying that name, and has called neither the *)
(* loader nor the context.                                                  *)
C6_UnknownSuffixFailsBeforeAnyCall ==
    (last.op = "Shader::from_res"
       /\ ~ends_with(last.arg, VERT) /\ ~ends_with(last.arg, FRAG))
    => /\ ~last.ret.ok
       /\ last.ret.err.tag = "UnknownShaderType"
       /\ last.ret.err.name = last.arg
       /\ gl.calls = << >>

C6_Witness ==
    /\ FailedWith("Shader::from_res", "UnknownShaderType")
    /\ last.arg = <<"t", ".", "g", "l", "s", "l">>
    /\ gl.next > 1

(* C7: when the loader fails for a stage in Program::from_res, the call     *)
(* returns ResourceLoadError with that stage's resource name (the logical   *)
(* name and the stage's suffix) and the loader's error as it was; after the *)
(* failed load nothing is loaded, created or compiled (the shaders built    *)
(* before it are released), and no program object is created.               *)
C7_LoadFailureShortCircuits ==
    last.op = "Program::from_res" =>
      \A i \in CallsOf("load_cstring") :
        ~gl.calls[i][3].ok =>
          /\ last.ret = Err(ResourceLoadError(gl.calls[i][2], gl.calls[i][3].err))
          /\ gl.calls[i][2] =
               format(last.arg, ProgramPOSSIBLE_EXT[Cardinality(CallsOf("load_cstring"))])
          /\ \A j \in DOMAIN gl.calls : j > i => gl.calls[j][1] = "DeleteShader"
          /\ Cardinality(CreatedShaders) = Cardinality(CallsOf("load_cstring")) - 1
          /\ CreatedPrograms = {}

\* the fragment stage's load failed after the vertex stage was built
C7_Witness ==
    /\ FailedWith("Program::from_res", "ResourceLoadError")
    /\ last.ret.err.name = format(last.arg, FRAG)
    /\ last.ret.err.inner = "FileContainsNil"
    /\ CreatedShaders # {}

(* C8: when a stage fails to compile in Program::from_res, the call returns *)
(* CompileError carrying the driver's info log of that stage, and no        *)
(* program object is created in the call: CreateProgram is called only when *)
(* every stage has been created and has compiled.                           *)
C8_CompileFailureCreatesNoProgram ==
    last.op = "Program::from_res" =>
      /\ \A h \in CreatedShaders :
           gl.status[h] = 0 =>
             /\ FailedWith("Program::from_res", "CompileError")
             /\ Carries(last.ret.err.message, gl.infoLog[h])
             /\ CreatedPrograms = {}
      /\ CreatedPrograms # {} =>
           /\ Cardinality(CreatedShaders) = Len(ProgramPOSSIBLE_EXT)
           /\ \A h \in CreatedShaders : gl.status[h] = 1
           /\ \A i \in CallsOf("CreateProgram"), j \in CallsOf("CompileShader") : j < i

\* the fragment stage failed to compile, with a log, after the vertex stage
C8_Witness ==
    /\ FailedWith("Program::from_res", "CompileError")
    /\ \E v, f \in CreatedShaders :
         /\ gl.kind[v] = VERTEX_SHADER /\ gl.status[v] = 1
         /\ gl.kind[f] = FRAGMENT_SHADER /\ gl.status[f] = 0
         /\ gl.infoLog[f] # << >>

(* C9: every Shader value wraps a shader handle whose compile status was    *)
(* success and every Program value wraps a program handle whose link status *)
(* was success, the values already dropped included; a failed compile or    *)
(* link returns an error and adds no value.                                 *)
C9_WrappersWrapSuccesses ==
    /\ \A h \in shaders : h \in DOMAIN gl.status /\ gl.status[h] = 1
    /\ \A p \in programs : p \in gl.progs /\ gl.linked[p] = 1
    /\ \A h \in dropped :
         IF h \in gl.progs THEN gl.linked[h] = 1 ELSE gl.status[h] = 1
    /\ \A h \in CreatedShaders : gl.status[h] = 0 => ~last.ret.ok
    /\ \A p \in CreatedPrograms : gl.linked[p] = 0 => ~last.ret.ok

\* a Shader value exists, and a compile and a link have failed, one of them
\* in the last operation
C9_Witness ==
    /\ shaders # {}
    /\ \E h \in DOMAIN gl.status : gl.status[h] = 0
    /\ \E p \in gl.progs : gl.linked[p] = 0
    /\ ~last.ret.ok

\* the context without the record of the calls made on it
ContextState(g) == [g EXCEPT !.calls = << >>]

(* C10: use_it on program P makes P's handle the active program whatever    *)
(* was active before, changes nothing else of the context and no Shader or  *)
(* Program value, and a second use_it of P leaves the context as the first  *)
(* left it.                                                                 *)
C10_UseItLastWinsIdempotent ==
    /\ [](\A p \in programs :
            LET once == ContextState(Program_use_it(World, p).gl)
                twice == ContextState(
                           Program_use_it(Program_use_it(World, p), p).gl)
            IN /\ once.active = p
               /\ twice = once)
    /\ [][(last.op = "Program::use_it")' =>
            /\ gl'.active = last'.arg
            /\ ContextState(gl') = [ContextState(gl) EXCEPT !.active = last'.arg]
            /\ gl'.calls = << <<"UseProgram", last'.arg>> >>
            /\ UNCHANGED <<shaders, programs, dropped>>]_vars

\* use_it on one of two programs the caller owns
C10_Witness ==
    /\ last.op = "Program::use_it"
    /\ gl.active = last.arg
    /\ \E q \in programs : q # last.arg
    /\ Cardinality(LiveShaderObjects) > 0

\* call i of the last operation is a call of op
Is(i, op) == i \in DOMAIN gl.calls /\ gl.calls[i][1] = op

(* C11: one Program::from_shaders call makes its native calls in the order  *)
(* create program, attach every unit in the order of the slice, link, query *)
(* the link status, and only then, and only on success, detach every unit;  *)
(* no detach precedes the link and no attach follows it.                    *)
C11_FromShadersCallOrder ==
    last.op = "Program::from_shaders" =>
      LET n == Len(last.arg)
          p == gl.calls[1][2]
      IN /\ Is(1, "CreateProgram")
         /\ \A i \in 1..n :
              /\ Is(1 + i, "AttachShader")
              /\ gl.calls[1 + i][2] = p /\ gl.calls[1 + i][3] = last.arg[i]
         /\ Is(n + 2, "LinkProgram") /\ gl.calls[n + 2][2] = p
         /\ Is(n + 3, "Getiv") /\ gl.calls[n + 3][2] = p
         /\ gl.calls[n + 3][3] = "LINK_STATUS"
         /\ \A j \in DOMAIN gl.calls :
              /\ Is(j, "AttachShader") => j < n + 2
              /\ Is(j, "DetachShader") => j > n + 3 /\ gl.linked[p] = 1
              /\ Is(j, "LinkProgram") => j = n + 2
         /\ gl.linked[p] = 1 =>
              /\ Len(gl.calls) = 2 * n + 3
              /\ \A i \in 1..n :
                   /\ Is(n + 3 + i, "DetachShader")
                   /\ gl.calls[n + 3 + i][2] = p
                   /\ gl.calls[n + 3 + i][3] = last.arg[i]

\* a successful link of two units
C11_Witness ==
    /\ last.op = "Program::from_shaders" /\ last.ret.ok
    /\ Len(last.arg) = 2
    /\ Is(7, "DetachShader")

(* C12: when Program::from_shaders succeeds, no shader is attached to the   *)
(* returned program, and the call has deleted no shader: every unit passed  *)
(* in is still a live object owned by the caller.                           *)
C12_SuccessDetachesAndKeepsUnits ==
    (last.op = "Program::from_shaders" /\ last.ret.ok) =>
      /\ {a \in gl.attached : a[1] = last.ret.val} = {}
      /\ CallsOf("DeleteShader") = {}
      /\ \A i \in 1..Len(last.arg) :
           /\ last.arg[i] \in shaders
           /\ last.arg[i] \notin dropped
           /\ gl.deletes[last.arg[i]] = 0

\* two units were attached, linked and detached
C12_Witness ==
    /\ last.op = "Program::from_shaders" /\ last.ret.ok
    /\ Cardinality(gl.built[last.ret.val]) = 2
    /\ last.ret.val \in programs

\* the loader calls of the last operation, in order
Loads == CallsOf("load_cstring")
FirstLoad == CHOOSE i \in Loads : \A j \in Loads : i <= j
LastLoad == CHOOSE i \in Loads : \A j \in Loads : j <= i

(* C13: Program::from_res handles the stages in the order ".vert", ".frag": *)
(* name+".vert" is loaded first and compiled to the end before name+".frag" *)
(* is loaded, and name+".frag" is loaded only when the vertex stage loaded  *)
(* and compiled successfully.                                               *)
C13_VertexStageBeforeFragmentStage ==
    last.op = "Program::from_res" =>
      /\ Loads # {} /\ Cardinality(Loads) <= 2
      /\ FirstLoad = 1
      /\ gl.calls[FirstLoad][2] = last.arg \o VERT
      /\ Cardinality(Loads) = 2 =>
           /\ gl.calls[LastLoad][2] = last.arg \o FRAG
           /\ gl.calls[FirstLoad][3].ok
           /\ \E c \in CallsOf("CompileShader"), q \in CallsOf("Getiv") :
                /\ c < q /\ q < LastLoad
                /\ gl.calls[q][2] = gl.calls[c][2]
                /\ gl.calls[q][3] = "COMPILE_STATUS"
                /\ gl.status[gl.calls[c][2]] = 1
                /\ \A i \in DOMAIN gl.calls :
                     (i > LastLoad /\ ~Is(i, "DeleteShader") /\ ~Is(i, "AttachShader")
                        /\ ~Is(i, "DetachShader"))
                     => gl.calls[i][2] # gl.calls[c][2]

\* the fragment stage was loaded, after the vertex stage compiled
C13_Witness ==
    /\ last.op = "Program::from_res"
    /\ Cardinality(Loads) = 2
    /\ LastLoad = 6
    /\ Is(3, "ShaderSource") /\ Is(4, "CompileShader")

(* C14: whenever Program::from_res reaches the link, the units it hands to  *)
(* Program::from_shaders are one shader created with kind Vertex followed   *)
(* by one created with kind Fragment, whatever the logical name: the kind   *)
(* follows from the suffix from_res appended alone.                         *)
C14_LinkGetsVertexThenFragment ==
    (last.op = "Program::from_res" /\ CreatedPrograms # {}) =>
      /\ Cardinality(CallsOf("AttachShader")) = 2
      /\ \E i, j \in CallsOf("AttachShader") :
           /\ i < j
           /\ gl.calls[i][3] \in CreatedShaders /\ gl.calls[j][3] \in CreatedShaders
           /\ gl.kind[gl.calls[i][3]] = VERTEX_SHADER
           /\ gl.kind[gl.calls[j][3]] = FRAGMENT_SHADER

\* the link is reached for a logical name that itself holds ".vert"
C14_Witness ==
    /\ last.op = "Program::from_res" /\ CreatedPrograms # {}
    /\ last.arg = <<"t">> \o VERT
    /\ last.ret.ok

\* the resource name Program::from_res gave the stage of shader h
StageName(h) ==
    IF gl.kind[h] = VERTEX_SHADER THEN last.arg \o VERT ELSE last.arg \o FRAG

(* C15: the CompileError of a stage that failed to compile names the        *)
(* failing stage: its name field is the stage's kind or the resource name   *)
(* of the shader that failed, so a vertex-stage failure differs from a      *)
(* fragment-stage failure.                                                  *)
C15_CompileErrorNamesTheStage ==
    FailedWith("Program::from_res", "CompileError") =>
      \A h \in CreatedShaders :
        gl.status[h] = 0 =>
          \/ last.ret.err.name = StageName(h)
          \/ last.ret.err.name = <<gl.kind[h]>>

(* C16: a successful Program::from_res leaves exactly one more live native  *)
(* object than before the call, the returned program; the two shader        *)
(* objects it created are deleted when it returns.                          *)
C16_SuccessLeavesOnlyTheProgram ==
    [][(last.op = "Program::from_res" /\ last.ret.ok)' =>
         /\ LiveProgramObjects' = LiveProgramObjects \cup {last'.ret.val}
         /\ last'.ret.val \notin LiveProgramObjects
         /\ LiveShaderObjects' = LiveShaderObjects
         /\ Cardinality(CreatedShaders') = 2
         /\ \A h \in CreatedShaders' : gl'.deletes[h] = 1
         /\ programs' = programs \cup {last'.ret.val}
         /\ shaders' = shaders]_vars

\* from_res returned a program; the shaders it built are deleted
C16_Witness ==
    /\ last.op = "Program::from_res" /\ last.ret.ok
    /\ last.ret.val \in LiveProgramObjects
    /\ Cardinality({h \in CreatedShaders : gl.deletes[h] = 1}) = 2

(* C17: in every Program::from_res call a shader handle is deleted only     *)
(* when it is attached to no existing program: a DeleteShader on a handle   *)
(* that was attached comes after its DetachShader from that program or      *)
(* after the DeleteProgram of that program.                                 *)
C17_DeleteShaderOnlyWhenDetached ==
    last.op = "Program::from_res" =>
      \A d \in CallsOf("DeleteShader"), a \in CallsOf("AttachShader") :
        (a < d /\ gl.calls[a][3] = gl.calls[d][2]) =>
          \E k \in DOMAIN gl.calls :
            /\ a < k /\ k < d
            /\ \/ /\ Is(k, "DetachShader")
                  /\ gl.calls[k][2] = gl.calls[a][2]
                  /\ gl.calls[k][3] = gl.calls[a][3]
               \/ /\ Is(k, "DeleteProgram")
                  /\ gl.calls[k][2] = gl.calls[a][2]

(* C18: Program::from_res never returns UnknownShaderType: every resource   *)
(* name it hands to Shader::from_res ends in ".vert" or ".frag", and its    *)
(* errors are ResourceLoadError, CompileError and LinkError only.           *)
C18_FromResNeverUnknownShaderType ==
    last.op = "Program::from_res" =>
      /\ last.ret.ok \/ last.ret.err.tag \in
                          {"ResourceLoadError", "CompileError", "LinkError"}
      /\ Loads # {}
      /\ \A i \in Loads :
           LET n == gl.calls[i][2]
           IN /\ Len(n) >= 5
              /\ SubSeq(n, Len(n) - 4, Len(n)) \in {VERT, FRAG}

\* both stages were loaded and the call failed at the link, for a logical
\* name that itself ends in a suffix
C18_Witness ==
    /\ FailedWith("Program::from_res", "LinkError")
    /\ last.arg = <<"t">> \o FRAG
    /\ Cardinality(Loads) = 2

====
